---- MODULE Spec2Model ----
(***************************************************************************)
(* Ticket-Booking-Backend: the booking / ticket lifecycle of the Express   *)
(* handlers, modelled over the MongoDB collections they share.             *)
(*                                                                         *)
(* Every handler is an async function: it runs synchronously up to a       *)
(* persistence call, is suspended there, and other handlers may run in     *)
(* between.  One action of the model is one persistence call of a handler  *)
(* together with the synchronous code that follows it up to the next       *)
(* persistence call (or up to the response).                               *)
(*                                                                         *)
(* HTTP responses are named by the error kinds of the specification:       *)
(*   200/201 -> "ok", 404 -> "NotFound", 403 -> "Forbidden",               *)
(*   400 "Not enough tickets available" -> "InsufficientInventory",        *)
(*   400 "Departure passed" -> "DeparturePassed",                          *)
(*   400 "Maximum 6 advertised tickets allowed" -> "SlotsExhausted",       *)
(*   400 "Invalid value", 400 "Missing required fields" ->                 *)
(*   "ValidationError", 400 "Invalid vendor" -> "InvalidTarget",           *)
(*   400 "Invalid status" -> "InvalidStatus".                              *)
(***************************************************************************)
EXTENDS Integers, Sequences, FiniteSets, TLC

VARIABLES usersCollection, ticketsCollection, bookingsCollection, reqs, now

vars == <<usersCollection, ticketsCollection, bookingsCollection, reqs, now>>

(* ---------------- bounds ---------------- *)
MaxReqs == 2          \* handlers in flight at the same time
MaxBookings == 2      \* documents the bookings collection may hold
BookTickets == 1      \* tickets stored at start in the booking scenarios
AdTickets == 7        \* tickets stored at start in the advertisement scenarios
InitQuantity == 5     \* quantity of every ticket stored at start
MaxTime == 1          \* the clock runs 0..MaxTime
MaxDebt == 3          \* no new payment is admitted once a quantity is below -MaxDebt
MaxTickets == 2       \* documents the tickets collection may hold where tickets are created
FraudTickets == 3     \* tickets stored at start in the fraud scenarios
CatalogTickets == 2   \* tickets stored at start in the verification scenarios
MaxRegistered == 2    \* user documents the registrations may add

(* ---------------- program constants ---------------- *)
AdLimit == 6

(* ---------------- inputs ---------------- *)
Reqs == 1..MaxReqs
BookingIds == 1..MaxBookings
QuantityInputs == {1, 3}
Statuses == {"pending", "accepted", "rejected", "paid"}

User1 == [email |-> "u1", role |-> "USER"]
User2 == [email |-> "u2", role |-> "USER"]
Vendor1 == [email |-> "v1", role |-> "VENDOR"]
Vendor2 == [email |-> "v2", role |-> "VENDOR"]
Admin1 == [email |-> "a1", role |-> "ADMIN"]
Callers == {User1, User2, Vendor1, Vendor2, Admin1}

(* ---------------- helpers ---------------- *)
\* the ids of the bookings stored
StoredBookings == 1..Len(bookingsCollection)

\* createBooking handlers that passed their checks and have not inserted yet
Inserting == {r \in Reqs : reqs[r].op = "createBooking"
                            /\ reqs[r].pc \in {"findUser", "insert"}}

\* the bookings collection has room for one more document
RoomForBooking == Len(bookingsCollection) + Cardinality(Inserting) < MaxBookings

\* no ticket quantity has run below the bound of the model
WithinDebt == \A t \in DOMAIN ticketsCollection :
                ticketsCollection[t].quantity >= -MaxDebt

\* a handler slot that can take a new request (the lowest one: slots are
\* interchangeable)
Free(r) == /\ reqs[r].pc \in {"idle", "done"}
           /\ \A q \in 1..(r - 1) : reqs[q].pc \notin {"idle", "done"}

\* req.user, the route, its parameters and the handler's locals
Request(op, pc, caller, id, arg, loc) ==
  [op |-> op, pc |-> pc, caller |-> caller, id |-> id, arg |-> arg,
   loc |-> loc, result |-> "none"]

\* res.json / res.status(..).json: the handler has answered
Respond(op, caller, id, arg, result) ==
  [op |-> op, pc |-> "done", caller |-> caller, id |-> id, arg |-> arg,
   loc |-> <<>>, result |-> result]

Idle == [op |-> "idle", pc |-> "idle", caller |-> User1, id |-> 0, arg |-> 0,
         loc |-> <<>>, result |-> "none"]

verifyVendor(caller) == caller.role = "VENDOR"

verifyAdmin(caller) == caller.role = "ADMIN"

\* updateOne({_id}, {$inc: {quantity: d}}): no document matched, no change
IncQuantity(coll, id, d) ==
  IF id \in DOMAIN coll
    THEN [coll EXCEPT ![id].quantity = @ + d]
    ELSE coll

\* updateOne({_id}, {$set: {status}}) on the bookings collection
SetStatus(coll, id, s) ==
  IF id \in 1..Len(coll)
    THEN [coll EXCEPT ![id].status = s]
    ELSE coll

(* ---------------- POST /bookings ---------------- *)
\* the handler with the stock check off by one: quantity > ticket.quantity + 1
CreateBookingFindOffByOne(r, caller, ticketId, quantity) ==
  /\ Free(r)
  /\ RoomForBooking
  /\ reqs' = [reqs EXCEPT ![r] =
       IF ticketId \notin DOMAIN ticketsCollection
         THEN Respond("createBooking", caller, ticketId, quantity, "NotFound")
       ELSE IF quantity > ticketsCollection[ticketId].quantity + 1
         THEN Respond("createBooking", caller, ticketId, quantity,
                      "InsufficientInventory")
       ELSE Request("createBooking", "findUser", caller, ticketId, quantity,
                    <<ticketsCollection[ticketId]>>)]
  /\ UNCHANGED <<ticketsCollection, bookingsCollection, now, usersCollection>>

\* findOne(ticket), the two early returns, then findOne(user) is issued
CreateBookingFind(r, caller, ticketId, quantity) ==
  /\ Free(r)
  /\ RoomForBooking
  /\ reqs' = [reqs EXCEPT ![r] =
       IF ticketId \notin DOMAIN ticketsCollection
         THEN Respond("createBooking", caller, ticketId, quantity, "NotFound")
       ELSE IF quantity > ticketsCollection[ticketId].quantity
         THEN Respond("createBooking", caller, ticketId, quantity,
                      "InsufficientInventory")
       ELSE Request("createBooking", "findUser", caller, ticketId, quantity,
                    <<ticketsCollection[ticketId]>>)]
  /\ UNCHANGED <<ticketsCollection, bookingsCollection, now, usersCollection>>

\* usersCollection.findOne returns; the booking is built, insertOne is issued
CreateBookingUser(r) ==
  /\ reqs[r].op = "createBooking" /\ reqs[r].pc = "findUser"
  /\ reqs' = [reqs EXCEPT ![r].pc = "insert"]
  /\ UNCHANGED <<ticketsCollection, bookingsCollection, now, usersCollection>>

\* bookingsCollection.insertOne(booking)
CreateBookingInsert(r) ==
  /\ reqs[r].op = "createBooking" /\ reqs[r].pc = "insert"
  /\ LET ticket == reqs[r].loc[1]
         booking == [ticketId |-> reqs[r].id,
                     ticketTitle |-> ticket.title,
                     departureDateTime |-> ticket.departureDateTime,
                     quantity |-> reqs[r].arg,
                     userEmail |-> reqs[r].caller.email,
                     vendorEmail |-> ticket.vendorEmail,
                     status |-> "pending"]
     IN bookingsCollection' = Append(bookingsCollection, booking)
  /\ reqs' = [reqs EXCEPT ![r].pc = "decrement"]
  /\ UNCHANGED <<ticketsCollection, now, usersCollection>>

\* ticketsCollection.updateOne({$inc: {quantity: -quantity}}), then res.json
CreateBookingDecrement(r) ==
  /\ reqs[r].op = "createBooking" /\ reqs[r].pc = "decrement"
  /\ ticketsCollection' = IncQuantity(ticketsCollection, reqs[r].id, -reqs[r].arg)
  /\ reqs' = [reqs EXCEPT ![r] =
       Respond("createBooking", reqs[r].caller, reqs[r].id, reqs[r].arg, "ok")]
  /\ UNCHANGED <<bookingsCollection, now, usersCollection>>

(* ---------------- POST /bookings, the variants that store the body ---------------- *)
\* {...req.body, userEmail: req.user.email, status: "pending"}
SpreadBooking(body, email) ==
  LET fixed == [userEmail |-> email, status |-> "pending"]
  IN [f \in DOMAIN body \cup DOMAIN fixed |->
        IF f \in DOMAIN fixed THEN fixed[f] ELSE body[f]]

\* {...req.body, status: "pending"}
SpreadBookingStatus(body) ==
  [f \in DOMAIN body \cup {"status"} |->
     IF f = "status" THEN "pending" ELSE body[f]]

\* verifyJWT, insertOne({...req.body, userEmail, status}), res.status(201).json
AddBooking(r, caller, body) ==
  /\ Free(r)
  /\ RoomForBooking
  /\ bookingsCollection' =
       Append(bookingsCollection, SpreadBooking(body, caller.email))
  /\ reqs' = [reqs EXCEPT ![r] = Respond("addBooking", caller, 0, body, "ok")]
  /\ UNCHANGED <<ticketsCollection, now, usersCollection>>

\* the handler without verifyJWT: insertOne({...req.body, status}); caller
\* is who sends the request, which the handler does not learn
PostBooking(r, caller, body) ==
  /\ Free(r)
  /\ RoomForBooking
  /\ bookingsCollection' = Append(bookingsCollection, SpreadBookingStatus(body))
  /\ reqs' = [reqs EXCEPT ![r] = Respond("postBooking", caller, 0, body, "ok")]
  /\ UNCHANGED <<ticketsCollection, now, usersCollection>>

(* ---------------- PATCH /bookings/pay/:id ---------------- *)
\* findOne(booking), the two early returns, then updateOne(status) is issued
PayFind(r, caller, id) ==
  /\ Free(r)
  /\ WithinDebt
  /\ reqs' = [reqs EXCEPT ![r] =
       IF id \notin StoredBookings
         THEN Respond("pay", caller, id, 0, "NotFound")
       ELSE IF bookingsCollection[id].departureDateTime < now
         THEN Respond("pay", caller, id, 0, "DeparturePassed")
       ELSE Request("pay", "setPaid", caller, id, 0, <<bookingsCollection[id]>>)]
  /\ UNCHANGED <<ticketsCollection, bookingsCollection, now, usersCollection>>

\* bookingsCollection.updateOne({$set: {status: "paid"}})
PaySetPaid(r) ==
  /\ reqs[r].op = "pay" /\ reqs[r].pc = "setPaid"
  /\ bookingsCollection' = SetStatus(bookingsCollection, reqs[r].id, "paid")
  /\ reqs' = [reqs EXCEPT ![r].pc = "decrement"]
  /\ UNCHANGED <<ticketsCollection, now, usersCollection>>

\* ticketsCollection.updateOne({$inc: {quantity: -booking.quantity}}), res.json
PayDecrement(r) ==
  /\ reqs[r].op = "pay" /\ reqs[r].pc = "decrement"
  /\ LET booking == reqs[r].loc[1]
     IN ticketsCollection' =
          IncQuantity(ticketsCollection, booking.ticketId, -booking.quantity)
  /\ reqs' = [reqs EXCEPT ![r] =
       Respond("pay", reqs[r].caller, reqs[r].id, 0, "ok")]
  /\ UNCHANGED <<bookingsCollection, now, usersCollection>>

(* ---------------- PATCH /bookings/accepted/:id, /bookings/rejected/:id ---------------- *)
\* verifyVendor, then updateOne({$set: {status}}) and res.json; the handler
\* reads neither the booking nor the number of documents matched
Decide(r, caller, id, outcome) ==
  /\ Free(r)
  /\ IF verifyVendor(caller)
       THEN /\ bookingsCollection' = SetStatus(bookingsCollection, id, outcome)
            /\ reqs' = [reqs EXCEPT ![r] = Respond("decide", caller, id, outcome, "ok")]
       ELSE /\ reqs' = [reqs EXCEPT ![r] =
                 Respond("decide", caller, id, outcome, "Forbidden")]
            /\ UNCHANGED bookingsCollection
  /\ UNCHANGED <<ticketsCollection, now, usersCollection>>

\* the variant that reads the booking first: role check, findOne, owner check
DecideOwnedFind(r, caller, id, outcome) ==
  /\ Free(r)
  /\ reqs' = [reqs EXCEPT ![r] =
       IF caller.role # "VENDOR"
         THEN Respond("decideOwned", caller, id, outcome, "Forbidden")
       ELSE IF id \notin StoredBookings
         THEN Respond("decideOwned", caller, id, outcome, "NotFound")
       ELSE IF bookingsCollection[id].vendorEmail # caller.email
         THEN Respond("decideOwned", caller, id, outcome, "Forbidden")
       ELSE Request("decideOwned", "update", caller, id, outcome,
                    <<bookingsCollection[id]>>)]
  /\ UNCHANGED <<ticketsCollection, bookingsCollection, now, usersCollection>>

\* updateOne({$set: {status}}), then res.json
DecideOwnedUpdate(r) ==
  /\ reqs[r].op = "decideOwned" /\ reqs[r].pc = "update"
  /\ bookingsCollection' = SetStatus(bookingsCollection, reqs[r].id, reqs[r].arg)
  /\ reqs' = [reqs EXCEPT ![r] =
       Respond("decideOwned", reqs[r].caller, reqs[r].id, reqs[r].arg, "ok")]
  /\ UNCHANGED <<ticketsCollection, now, usersCollection>>

(* ---------------- PATCH /bookings/:id ---------------- *)
\* findOne(booking), then the role check; req.body carries a status
UpdateBookingFind(r, caller, id, status) ==
  /\ Free(r)
  /\ reqs' = [reqs EXCEPT ![r] =
       IF id \notin StoredBookings
         THEN Respond("updateBooking", caller, id, status, "NotFound")
       ELSE IF caller.role # "VENDOR" /\ caller.role # "ADMIN"
         THEN Respond("updateBooking", caller, id, status, "Forbidden")
       ELSE Request("updateBooking", "update", caller, id, status,
                    <<bookingsCollection[id]>>)]
  /\ UNCHANGED <<ticketsCollection, bookingsCollection, now, usersCollection>>

\* updateOne({$set: req.body}), then res.json
UpdateBookingSet(r) ==
  /\ reqs[r].op = "updateBooking" /\ reqs[r].pc = "update"
  /\ bookingsCollection' = SetStatus(bookingsCollection, reqs[r].id, reqs[r].arg)
  /\ reqs' = [reqs EXCEPT ![r] =
       Respond("updateBooking", reqs[r].caller, reqs[r].id, reqs[r].arg, "ok")]
  /\ UNCHANGED <<ticketsCollection, now, usersCollection>>

(* ---------------- PATCH /tickets/advertise/:id ---------------- *)
\* the number of documents with isAdvertised = true
countAdvertised(coll) ==
  Cardinality({t \in DOMAIN coll : coll[t].isAdvertised})

\* count >= 6: no slot is left
SlotsFullOffByOne(coll) == countAdvertised(coll) > AdLimit

SlotsFull(coll) == countAdvertised(coll) >= AdLimit

\* updateOne({_id}, {$set: {isAdvertised}})
SetAdvertised(coll, id, flag) ==
  IF id \in DOMAIN coll
    THEN [coll EXCEPT ![id].isAdvertised = flag]
    ELSE coll

\* typeof isAdvertised === "boolean", for a JSON value of the body
IsBoolean(v) == v \in {"true", "false"}

\* verifyAdmin and the type check; for true, countDocuments and the limit;
\* for false, the updateOne is the first persistence call
AdvertiseStart(r, caller, id, isAdvertised) ==
  /\ Free(r)
  /\ IF ~verifyAdmin(caller)
       THEN /\ reqs' = [reqs EXCEPT ![r] =
                 Respond("advertise", caller, id, isAdvertised, "Forbidden")]
            /\ UNCHANGED ticketsCollection
     ELSE IF ~IsBoolean(isAdvertised)
       THEN /\ reqs' = [reqs EXCEPT ![r] =
                 Respond("advertise", caller, id, isAdvertised, "ValidationError")]
            /\ UNCHANGED ticketsCollection
     ELSE IF isAdvertised = "true"
       THEN /\ reqs' = [reqs EXCEPT ![r] =
                 IF SlotsFull(ticketsCollection)
                   THEN Respond("advertise", caller, id, isAdvertised,
                                "SlotsExhausted")
                   ELSE Request("advertise", "update", caller, id,
                                isAdvertised, <<>>)]
            /\ UNCHANGED ticketsCollection
     ELSE /\ ticketsCollection' = SetAdvertised(ticketsCollection, id, FALSE)
          /\ reqs' = [reqs EXCEPT ![r] =
               Respond("advertise", caller, id, isAdvertised, "ok")]
  /\ UNCHANGED <<bookingsCollection, now, usersCollection>>

\* updateOne({$set: {isAdvertised: true}}) after the count, then res.json
AdvertiseUpdate(r) ==
  /\ reqs[r].op = "advertise" /\ reqs[r].pc = "update"
  /\ ticketsCollection' = SetAdvertised(ticketsCollection, reqs[r].id, TRUE)
  /\ reqs' = [reqs EXCEPT ![r] =
       Respond("advertise", reqs[r].caller, reqs[r].id, reqs[r].arg, "ok")]
  /\ UNCHANGED <<bookingsCollection, now, usersCollection>>

(* ---------------- PATCH /admin/tickets/advertise/:id ---------------- *)
\* verifyAdmin, findOne(ticket); newStatus = !ticket.isAdvertised
ToggleFind(r, caller, id) ==
  /\ Free(r)
  /\ reqs' = [reqs EXCEPT ![r] =
       IF ~verifyAdmin(caller)
         THEN Respond("toggle", caller, id, "none", "Forbidden")
       ELSE IF id \notin DOMAIN ticketsCollection
         THEN Respond("toggle", caller, id, "none", "NotFound")
       ELSE Request("toggle", "update", caller, id,
                    IF ticketsCollection[id].isAdvertised THEN "false" ELSE "true",
                    <<ticketsCollection[id]>>)]
  /\ UNCHANGED <<ticketsCollection, bookingsCollection, now, usersCollection>>

\* updateOne({$set: {isAdvertised: newStatus}}), then res.json
ToggleUpdate(r) ==
  /\ reqs[r].op = "toggle" /\ reqs[r].pc = "update"
  /\ ticketsCollection' =
       SetAdvertised(ticketsCollection, reqs[r].id, reqs[r].arg = "true")
  /\ reqs' = [reqs EXCEPT ![r] =
       Respond("toggle", reqs[r].caller, reqs[r].id, reqs[r].arg, "ok")]
  /\ UNCHANGED <<bookingsCollection, now, usersCollection>>

(* ---------------- PATCH /tickets/vendor/:id ---------------- *)
\* updateOne({_id}, {$set: body}): the fields of the body replace the
\* document's, the other fields stay
SetFields(coll, id, body) ==
  IF id \in DOMAIN coll
    THEN [coll EXCEPT ![id] =
            [f \in DOMAIN coll[id] \cup DOMAIN body |->
               IF f \in DOMAIN body THEN body[f] ELSE coll[id][f]]]
    ELSE coll

\* verifyVendor, findOne(ticket), the owner check; req.body is not inspected
UpdateTicketFind(r, caller, id, body) ==
  /\ Free(r)
  /\ reqs' = [reqs EXCEPT ![r] =
       IF ~verifyVendor(caller)
         THEN Respond("updateTicket", caller, id, body, "Forbidden")
       ELSE IF id \notin DOMAIN ticketsCollection
                 \/ ticketsCollection[id].vendorEmail # caller.email
         THEN Respond("updateTicket", caller, id, body, "Forbidden")
       ELSE Request("updateTicket", "update", caller, id, body,
                    <<ticketsCollection[id]>>)]
  /\ UNCHANGED <<ticketsCollection, bookingsCollection, now, usersCollection>>

\* an update that also rewrites the copies the bookings of the ticket hold
UpdateTicketSetCascade(r) ==
  /\ reqs[r].op = "updateTicket" /\ reqs[r].pc = "update"
  /\ ticketsCollection' = SetFields(ticketsCollection, reqs[r].id, reqs[r].arg)
  /\ bookingsCollection' =
       [b \in StoredBookings |->
          IF bookingsCollection[b].ticketId = reqs[r].id
            THEN [f \in DOMAIN bookingsCollection[b] |->
                    IF f \in DOMAIN reqs[r].arg THEN reqs[r].arg[f]
                    ELSE IF f = "ticketTitle" /\ "title" \in DOMAIN reqs[r].arg
                      THEN reqs[r].arg.title
                    ELSE bookingsCollection[b][f]]
            ELSE bookingsCollection[b]]
  /\ reqs' = [reqs EXCEPT ![r] =
       Respond("updateTicket", reqs[r].caller, reqs[r].id, reqs[r].arg, "ok")]
  /\ UNCHANGED <<now, usersCollection>>

\* updateOne({_id: ticket._id}, {$set: req.body}), then res.json
UpdateTicketSet(r) ==
  /\ reqs[r].op = "updateTicket" /\ reqs[r].pc = "update"
  /\ ticketsCollection' = SetFields(ticketsCollection, reqs[r].id, reqs[r].arg)
  /\ reqs' = [reqs EXCEPT ![r] =
       Respond("updateTicket", reqs[r].caller, reqs[r].id, reqs[r].arg, "ok")]
  /\ UNCHANGED <<bookingsCollection, now, usersCollection>>

(* ---------------- the users collection ---------------- *)
\* a user document; the collection maps the _id of a document to it
User(email, role, fraud) == [email |-> email, role |-> role, isFraud |-> fraud]

\* the users stored at start: one document per caller of the model, whose
\* _id is written like its email
InitUsers ==
  [e \in {c.email : c \in Callers} |->
     User(e, (CHOOSE c \in Callers : c.email = e).role, FALSE)]

(* ---------------- usersCollection.findOne({email}) ---------------- *)
\* the _ids of the documents with that email
UsersWith(coll, email) == {id \in DOMAIN coll : coll[id].email = email}

\* the document found; the handlers that use it are called by stored users
FindUser(coll, email) == coll[CHOOSE id \in UsersWith(coll, email) : TRUE]

(* ---------------- POST /users, POST /users/google-login ---------------- *)
\* handlers that found no user with their email and have not inserted yet
InsertingUser == {r \in Reqs : reqs[r].op \in {"register", "googleLogin"}
                               /\ reqs[r].pc = "insert"}

\* the documents added to the users stored at start
Registered == DOMAIN usersCollection \ DOMAIN InitUsers

\* the users collection has room for one more document
RoomForUser == Cardinality(Registered) + Cardinality(InsertingUser) < MaxRegistered

\* insertOne(user): the document gets a new _id
InsertUser(coll, user) ==
  LET id == "n" \o ToString(Cardinality(DOMAIN coll \ DOMAIN InitUsers) + 1)
  IN [i \in DOMAIN coll \cup {id} |-> IF i = id THEN user ELSE coll[i]]

\* the request of somebody who is not logged in: req.user is not set
Anonymous(email) == [email |-> email, role |-> "NONE"]

\* findOne({email}); a user found is the answer, else insertOne is issued
RegisterFind(r, email) ==
  /\ Free(r)
  /\ RoomForUser
  /\ reqs' = [reqs EXCEPT ![r] =
       IF UsersWith(usersCollection, email) # {}
         THEN Respond("register", Anonymous(email), 0, email, "ok")
       ELSE Request("register", "insert", Anonymous(email), 0, email, <<>>)]
  /\ UNCHANGED <<ticketsCollection, bookingsCollection, now, usersCollection>>

\* insertOne({name, email, role: "USER", isFraud: false}), then res.json
RegisterInsert(r) ==
  /\ reqs[r].op = "register" /\ reqs[r].pc = "insert"
  /\ usersCollection' =
       InsertUser(usersCollection, User(reqs[r].arg, "USER", FALSE))
  /\ reqs' = [reqs EXCEPT ![r] =
       Respond("register", reqs[r].caller, 0, reqs[r].arg, "ok")]
  /\ UNCHANGED <<ticketsCollection, bookingsCollection, now>>

\* the login with a Google account: findOne({email}); a user found gets its
\* token, else insertOne is issued
GoogleLoginFind(r, email) ==
  /\ Free(r)
  /\ RoomForUser
  /\ reqs' = [reqs EXCEPT ![r] =
       IF email = ""
         THEN Respond("googleLogin", Anonymous(email), 0, email, "ValidationError")
       ELSE IF UsersWith(usersCollection, email) # {}
         THEN Respond("googleLogin", Anonymous(email), 0, email, "ok")
       ELSE Request("googleLogin", "insert", Anonymous(email), 0, email, <<>>)]
  /\ UNCHANGED <<ticketsCollection, bookingsCollection, now, usersCollection>>

\* insertOne({name, email, photoURL, role: "USER", fraud: false}), the token
GoogleLoginInsert(r) ==
  /\ reqs[r].op = "googleLogin" /\ reqs[r].pc = "insert"
  /\ usersCollection' =
       InsertUser(usersCollection, User(reqs[r].arg, "USER", FALSE))
  /\ reqs' = [reqs EXCEPT ![r] =
       Respond("googleLogin", reqs[r].caller, 0, reqs[r].arg, "ok")]
  /\ UNCHANGED <<ticketsCollection, bookingsCollection, now>>

\* the handler without a lookup: insertOne({..., role: role || "USER"}); ""
\* stands for a body without role
AddUser(r, email, role) ==
  /\ Free(r)
  /\ RoomForUser
  /\ usersCollection' =
       InsertUser(usersCollection,
                  User(email, IF role = "" THEN "USER" ELSE role, FALSE))
  /\ reqs' = [reqs EXCEPT ![r] =
       Respond("addUser", Anonymous(email), 0, email, "ok")]
  /\ UNCHANGED <<ticketsCollection, bookingsCollection, now>>

(* ---------------- PATCH /users/role/:id ---------------- *)
\* verifyAdmin, the check of the role, updateOne({_id}, {$set: {role}})
ChangeRole(r, caller, id, role) ==
  /\ Free(r)
  /\ IF ~verifyAdmin(caller)
       THEN /\ reqs' = [reqs EXCEPT ![r] =
                 Respond("changeRole", caller, id, role, "Forbidden")]
            /\ UNCHANGED usersCollection
     ELSE IF role \notin {"ADMIN", "VENDOR", "USER"}
       THEN /\ reqs' = [reqs EXCEPT ![r] =
                 Respond("changeRole", caller, id, role, "ValidationError")]
            /\ UNCHANGED usersCollection
     ELSE /\ usersCollection' =
               IF id \in DOMAIN usersCollection
                 THEN [usersCollection EXCEPT ![id].role = role]
                 ELSE usersCollection
          /\ reqs' = [reqs EXCEPT ![r] =
               Respond("changeRole", caller, id, role, "ok")]
  /\ UNCHANGED <<ticketsCollection, bookingsCollection, now>>

(* ---------------- GET /tickets ---------------- *)
\* find({verificationStatus: "approved", isHidden: {$ne: true}}), with
\* isAdvertised: true added when the query says advertised=true
listPublic(coll, advertisedOnly) ==
  {t \in DOMAIN coll : /\ coll[t].verificationStatus = "approved"
                       /\ coll[t].isHidden # TRUE
                       /\ advertisedOnly => coll[t].isAdvertised = TRUE}

(* ---------------- GET /tickets, the variants without isHidden ---------------- *)
\* find({verificationStatus: "approved"}), with isAdvertised: true added
\* when the query says advertised=true
listApproved(coll, advertisedOnly) ==
  {t \in DOMAIN coll : /\ coll[t].verificationStatus = "approved"
                       /\ advertisedOnly => coll[t].isAdvertised = TRUE}

\* find({verificationStatus: req.query.verificationStatus || "approved"});
\* "" stands for a query without verificationStatus
listByStatus(coll, status) ==
  {t \in DOMAIN coll :
     coll[t].verificationStatus = (IF status = "" THEN "approved" ELSE status)}

(* ---------------- PATCH /users/fraud/:id ---------------- *)
\* updateMany({vendorEmail}, {$set: {isHidden: true}}) that leaves the
\* approved tickets out
HideTicketsUnlessApproved(coll, email) ==
  [t \in DOMAIN coll |->
     IF coll[t].vendorEmail = email /\ coll[t].verificationStatus # "approved"
       THEN [coll[t] EXCEPT !.isHidden = TRUE]
       ELSE coll[t]]

\* updateMany({vendorEmail: user.email}, {$set: {isHidden: true}})
HideTickets(coll, email) ==
  [t \in DOMAIN coll |->
     IF coll[t].vendorEmail = email
       THEN [coll[t] EXCEPT !.isHidden = TRUE]
       ELSE coll[t]]

\* verifyAdmin, findOne(user), the early return; a user document is keyed by
\* its email, which stands for its _id
MarkFraudFind(r, caller, id) ==
  /\ Free(r)
  /\ reqs' = [reqs EXCEPT ![r] =
       IF ~verifyAdmin(caller)
         THEN Respond("markFraud", caller, id, 0, "Forbidden")
       ELSE IF id \notin DOMAIN usersCollection
                 \/ usersCollection[id].role # "VENDOR"
         THEN Respond("markFraud", caller, id, 0, "InvalidTarget")
       ELSE Request("markFraud", "setFraud", caller, id, 0,
                    <<usersCollection[id].email>>)]
  /\ UNCHANGED <<ticketsCollection, bookingsCollection, now, usersCollection>>

\* usersCollection.updateOne({_id: user._id}, {$set: {isFraud: true}})
MarkFraudSet(r) ==
  /\ reqs[r].op = "markFraud" /\ reqs[r].pc = "setFraud"
  /\ usersCollection' = [usersCollection EXCEPT ![reqs[r].id].isFraud = TRUE]
  /\ reqs' = [reqs EXCEPT ![r].pc = "hide"]
  /\ UNCHANGED <<ticketsCollection, bookingsCollection, now>>

\* ticketsCollection.updateMany(...), then res.json
MarkFraudHide(r) ==
  /\ reqs[r].op = "markFraud" /\ reqs[r].pc = "hide"
  /\ ticketsCollection' = HideTickets(ticketsCollection, reqs[r].loc[1])
  /\ reqs' = [reqs EXCEPT ![r] =
       Respond("markFraud", reqs[r].caller, reqs[r].id, 0, "ok")]
  /\ UNCHANGED <<bookingsCollection, now, usersCollection>>

(* ---------------- PATCH /admin/tickets/:id ---------------- *)
\* verifyAdmin, the check of the value, updateOne({$set: {verificationStatus}})
SetVerification(r, caller, id, verificationStatus) ==
  /\ Free(r)
  /\ IF ~verifyAdmin(caller)
       THEN /\ reqs' = [reqs EXCEPT ![r] =
                 Respond("setVerification", caller, id, verificationStatus,
                         "Forbidden")]
            /\ UNCHANGED ticketsCollection
     ELSE IF verificationStatus \notin {"approved", "rejected"}
       THEN /\ reqs' = [reqs EXCEPT ![r] =
                 Respond("setVerification", caller, id, verificationStatus,
                         "InvalidStatus")]
            /\ UNCHANGED ticketsCollection
     ELSE /\ ticketsCollection' =
               SetFields(ticketsCollection, id,
                         [verificationStatus |-> verificationStatus])
          /\ reqs' = [reqs EXCEPT ![r] =
               Respond("setVerification", caller, id, verificationStatus, "ok")]
  /\ UNCHANGED <<bookingsCollection, now, usersCollection>>

(* ---------------- PATCH /admin/tickets/:id, the variant with findOne ---------------- *)
\* verifyAdmin, the check of req.body.status, findOne(ticket)
SetTicketStatusFind(r, caller, id, status) ==
  /\ Free(r)
  /\ reqs' = [reqs EXCEPT ![r] =
       IF ~verifyAdmin(caller)
         THEN Respond("setTicketStatus", caller, id, status, "Forbidden")
       ELSE IF status \notin {"approved", "rejected", "hidden"}
         THEN Respond("setTicketStatus", caller, id, status, "InvalidStatus")
       ELSE IF id \notin DOMAIN ticketsCollection
         THEN Respond("setTicketStatus", caller, id, status, "NotFound")
       ELSE Request("setTicketStatus", "update", caller, id, status,
                    <<ticketsCollection[id]>>)]
  /\ UNCHANGED <<ticketsCollection, bookingsCollection, now, usersCollection>>

\* updateOne({_id: ticket._id}, {$set: {verificationStatus: status}}), res.json
SetTicketStatusUpdate(r) ==
  /\ reqs[r].op = "setTicketStatus" /\ reqs[r].pc = "update"
  /\ ticketsCollection' =
       SetFields(ticketsCollection, reqs[r].id,
                 [verificationStatus |-> reqs[r].arg])
  /\ reqs' = [reqs EXCEPT ![r] =
       Respond("setTicketStatus", reqs[r].caller, reqs[r].id, reqs[r].arg, "ok")]
  /\ UNCHANGED <<bookingsCollection, now, usersCollection>>

(* ---------------- POST /tickets ---------------- *)
\* createTicket handlers that passed their checks and have not inserted yet
InsertingTicket == {r \in Reqs : reqs[r].op = "createTicket" /\ reqs[r].pc = "insert"}

\* the tickets collection has room for one more document
RoomForTicket ==
  Cardinality(DOMAIN ticketsCollection) + Cardinality(InsertingTicket) < MaxTickets

\* insertOne(ticket): the document gets the next id
InsertTicket(coll, ticket) ==
  LET id == Cardinality(DOMAIN coll) + 1
  IN [t \in DOMAIN coll \cup {id} |-> IF t = id THEN ticket ELSE coll[t]]

\* {...req.body, vendorEmail, verificationStatus: "pending",
\*  isAdvertised: false, isHidden: false}
SpreadTicket(body, email) ==
  LET fixed == [vendorEmail |-> email, verificationStatus |-> "pending",
                isAdvertised |-> FALSE, isHidden |-> FALSE]
  IN [f \in DOMAIN body \cup DOMAIN fixed |->
        IF f \in DOMAIN fixed THEN fixed[f] ELSE body[f]]

\* the fields the handler takes out of req.body, and the fixed ones
PickTicket(body, email) ==
  [title |-> body.title, price |-> body.price, quantity |-> body.quantity,
   departureDateTime |-> body.departureDateTime, vendorEmail |-> email,
   verificationStatus |-> "pending", isHidden |-> FALSE, isAdvertised |-> FALSE]

\* !v of a string of the body, and of a number of the body
FalsyString(v) == v = ""

FalsyNumber(v) == v = 0

\* the handler that asks for the vendor first: verifyVendor, findOne(user by
\* email), vendor.isFraud, then insertOne is issued
CreateTicketFind(r, caller, body) ==
  /\ Free(r)
  /\ RoomForTicket
  /\ reqs' = [reqs EXCEPT ![r] =
       IF ~verifyVendor(caller)
         THEN Respond("createTicket", caller, 0, body, "Forbidden")
       ELSE IF FindUser(usersCollection, caller.email).isFraud
         THEN Respond("createTicket", caller, 0, body, "Forbidden")
       ELSE Request("createTicket", "insert", caller, 0, body, <<>>)]
  /\ UNCHANGED <<ticketsCollection, bookingsCollection, now, usersCollection>>

\* ticketsCollection.insertOne(ticket), then res.json
CreateTicketInsert(r) ==
  /\ reqs[r].op = "createTicket" /\ reqs[r].pc = "insert"
  /\ ticketsCollection' =
       InsertTicket(ticketsCollection,
                    SpreadTicket(reqs[r].arg, reqs[r].caller.email))
  /\ reqs' = [reqs EXCEPT ![r] =
       Respond("createTicket", reqs[r].caller, 0, reqs[r].arg, "ok")]
  /\ UNCHANGED <<bookingsCollection, now, usersCollection>>

\* the handler that checks the body: verifyVendor, the required fields,
\* insertOne(ticket), then res.status(201).json
AddTicket(r, caller, body) ==
  /\ Free(r)
  /\ RoomForTicket
  /\ IF ~verifyVendor(caller)
       THEN /\ reqs' = [reqs EXCEPT ![r] =
                 Respond("addTicket", caller, 0, body, "Forbidden")]
            /\ UNCHANGED ticketsCollection
     ELSE IF FalsyString(body.title) \/ FalsyNumber(body.price)
                \/ FalsyNumber(body.quantity)
       THEN /\ reqs' = [reqs EXCEPT ![r] =
                 Respond("addTicket", caller, 0, body, "ValidationError")]
            /\ UNCHANGED ticketsCollection
     ELSE /\ ticketsCollection' =
               InsertTicket(ticketsCollection, PickTicket(body, caller.email))
          /\ reqs' = [reqs EXCEPT ![r] =
               Respond("addTicket", caller, 0, body, "ok")]
  /\ UNCHANGED <<bookingsCollection, now, usersCollection>>

(* ---------------- DELETE /tickets/vendor/:id ---------------- *)
\* verifyVendor, findOne(ticket), the owner check
DeleteTicketFind(r, caller, id) ==
  /\ Free(r)
  /\ reqs' = [reqs EXCEPT ![r] =
       IF ~verifyVendor(caller)
         THEN Respond("deleteTicket", caller, id, 0, "Forbidden")
       ELSE IF id \notin DOMAIN ticketsCollection
                 \/ ticketsCollection[id].vendorEmail # caller.email
         THEN Respond("deleteTicket", caller, id, 0, "Forbidden")
       ELSE Request("deleteTicket", "delete", caller, id, 0,
                    <<ticketsCollection[id]>>)]
  /\ UNCHANGED <<ticketsCollection, bookingsCollection, now, usersCollection>>

\* deleteOne({_id: ticket._id}), then res.json
DeleteTicketRemove(r) ==
  /\ reqs[r].op = "deleteTicket" /\ reqs[r].pc = "delete"
  /\ ticketsCollection' =
       [t \in DOMAIN ticketsCollection \ {reqs[r].id} |-> ticketsCollection[t]]
  /\ reqs' = [reqs EXCEPT ![r] =
       Respond("deleteTicket", reqs[r].caller, reqs[r].id, 0, "ok")]
  /\ UNCHANGED <<bookingsCollection, now, usersCollection>>

(* ---------------- the clock (new Date()) ---------------- *)
Tick ==
  /\ now < MaxTime
  /\ now' = now + 1
  /\ UNCHANGED <<ticketsCollection, bookingsCollection, reqs, usersCollection>>

(* ---------------- start states ---------------- *)
Ticket(q, adv, dep) ==
  [title |-> "bus", price |-> 10, quantity |-> q, isAdvertised |-> adv, vendorEmail |-> "v1",
   departureDateTime |-> dep, verificationStatus |-> "approved",
   isHidden |-> FALSE]

InitBooking ==
  /\ ticketsCollection \in [1..BookTickets -> {Ticket(InitQuantity, FALSE, d) : d \in 0..MaxTime}]
  /\ bookingsCollection = <<>>
  /\ usersCollection = InitUsers
  /\ reqs = [r \in Reqs |-> Idle]
  /\ now = 0

NextBooking ==
  \/ \E r \in Reqs, c \in {User1, User2}, t \in 1..(BookTickets + 1), q \in QuantityInputs :
       CreateBookingFind(r, c, t, q)
  \/ \E r \in Reqs : CreateBookingUser(r)
  \/ \E r \in Reqs : CreateBookingInsert(r)
  \/ \E r \in Reqs : CreateBookingDecrement(r)
  \/ \E r \in Reqs, c \in {User1, User2}, b \in BookingIds : PayFind(r, c, b)
  \/ \E r \in Reqs : PaySetPaid(r)
  \/ \E r \in Reqs : PayDecrement(r)
  \/ Tick

SpecBooking == InitBooking /\ [][NextBooking]_vars

(* ---------------- accept / reject / pay of stored bookings ---------------- *)
\* the store after one createBooking of BookedAtStart units has completed
BookedAtStart == 3

InitDecide ==
  /\ ticketsCollection \in
       [1..BookTickets -> {Ticket(InitQuantity - BookedAtStart, FALSE, d) : d \in 0..MaxTime}]
  /\ bookingsCollection =
       <<[ticketId |-> 1, ticketTitle |-> ticketsCollection[1].title,
          departureDateTime |-> ticketsCollection[1].departureDateTime,
          quantity |-> BookedAtStart, userEmail |-> "u1",
          vendorEmail |-> "v1", status |-> "pending"]>>
  /\ usersCollection = InitUsers
  /\ reqs = [r \in Reqs |-> Idle]
  /\ now = 0

\* the requests of the owning vendor and of another vendor on every booking
\* id, and one request of a caller who is no vendor
DecideInputs ==
  {<<c, b, o>> : c \in {Vendor1, Vendor2}, b \in BookingIds,
                 o \in {"accepted", "rejected"}}
    \cup {<<User1, 1, "accepted">>}

UpdateBookingInputs ==
  {<<c, 1, s>> : c \in {Vendor1, Admin1}, s \in Statuses}
    \cup {<<User1, 1, "paid">>, <<Admin1, MaxBookings, "paid">>}

NextDecide ==
  \/ \E r \in Reqs, in \in DecideInputs : Decide(r, in[1], in[2], in[3])
  \/ \E r \in Reqs, in \in DecideInputs : DecideOwnedFind(r, in[1], in[2], in[3])
  \/ \E r \in Reqs : DecideOwnedUpdate(r)
  \/ \E r \in Reqs, in \in UpdateBookingInputs :
       UpdateBookingFind(r, in[1], in[2], in[3])
  \/ \E r \in Reqs : UpdateBookingSet(r)
  \/ \E r \in Reqs, b \in BookingIds : PayFind(r, User1, b)
  \/ \E r \in Reqs : PaySetPaid(r)
  \/ \E r \in Reqs : PayDecrement(r)
  \/ Tick

SpecDecide == InitDecide /\ [][NextDecide]_vars

(* ---------------- advertisement slots ---------------- *)
\* tickets 1..AdFixed are advertised at start and no request names them
AdFixed == AdLimit - 1
AdTargets == (AdFixed + 1)..(AdTickets + 1)

\* the requests of an ADMIN, and one refused request of each kind
AdvertiseInputs ==
  {<<Admin1, t, v>> : t \in AdTargets, v \in {"true", "false"}}
    \cup {<<Admin1, AdFixed + 1, "yes">>, <<Vendor1, AdFixed + 1, "true">>}

ToggleInputs ==
  {<<Admin1, t>> : t \in AdTargets} \cup {<<Vendor1, AdFixed + 1>>}

InitAdvert ==
  /\ \E adv \in SUBSET ((AdFixed + 1)..AdTickets) :
       /\ AdFixed + Cardinality(adv) <= AdLimit
       /\ ticketsCollection =
            [t \in 1..AdTickets |->
               Ticket(InitQuantity, t <= AdFixed \/ t \in adv, MaxTime)]
  /\ bookingsCollection = <<>>
  /\ usersCollection = InitUsers
  /\ reqs = [r \in Reqs |-> Idle]
  /\ now = 0

NextAdvert ==
  \/ \E r \in Reqs, in \in AdvertiseInputs : AdvertiseStart(r, in[1], in[2], in[3])
  \/ \E r \in Reqs : AdvertiseUpdate(r)
  \/ \E r \in Reqs, in \in ToggleInputs : ToggleFind(r, in[1], in[2])
  \/ \E r \in Reqs : ToggleUpdate(r)

SpecAdvert == InitAdvert /\ [][NextAdvert]_vars

(* ---------------- payment of a stored booking ---------------- *)
\* the store after one createBooking of BookedAtStart units by u1 has
\* completed, decided or not
InitSettle ==
  /\ ticketsCollection \in
       [1..BookTickets -> {Ticket(InitQuantity - BookedAtStart, FALSE, d) : d \in 0..MaxTime}]
  /\ \E s \in {"pending", "accepted"} :
       bookingsCollection =
         <<[ticketId |-> 1, ticketTitle |-> ticketsCollection[1].title,
            departureDateTime |-> ticketsCollection[1].departureDateTime,
            quantity |-> BookedAtStart, userEmail |-> "u1",
            vendorEmail |-> "v1", status |-> s]>>
  /\ usersCollection = InitUsers
  /\ reqs = [r \in Reqs |-> Idle]
  /\ now = 0

\* the owning vendor moves the departure of a ticket; one request of another
\* vendor and one of a caller who is no vendor
UpdateTicketInputs ==
  {<<Vendor1, t, [departureDateTime |-> d]>> :
       t \in 1..(BookTickets + 1), d \in 0..MaxTime}
    \cup {<<Vendor2, 1, [departureDateTime |-> 0]>>,
          <<User1, 1, [departureDateTime |-> 0]>>}

NextSettle ==
  \/ \E r \in Reqs, in \in UpdateTicketInputs :
       UpdateTicketFind(r, in[1], in[2], in[3])
  \/ \E r \in Reqs : UpdateTicketSet(r)
  \/ \E r \in Reqs, c \in {User1, User2}, b \in BookingIds : PayFind(r, c, b)
  \/ \E r \in Reqs : PaySetPaid(r)
  \/ \E r \in Reqs : PayDecrement(r)
  \/ Tick

SpecSettle == InitSettle /\ [][NextSettle]_vars

(* ---------------- marking a vendor as fraud ---------------- *)
\* the tickets of two vendors, in turn, each in any verification status and
\* advertised or not; nobody is marked yet
InitFraud ==
  /\ \E st \in [1..FraudTickets -> {"pending", "approved", "rejected"}] :
       ticketsCollection =
         [t \in 1..FraudTickets |->
            [Ticket(InitQuantity, t = 1, MaxTime) EXCEPT
               !.vendorEmail = IF t % 2 = 1 THEN "v1" ELSE "v2",
               !.verificationStatus = st[t]]]
  /\ bookingsCollection = <<>>
  /\ usersCollection = InitUsers
  /\ reqs = [r \in Reqs |-> Idle]
  /\ now = 0

\* an ADMIN marks a vendor, a user who is no vendor and a user who is not
\* stored; a VENDOR tries to mark
MarkFraudInputs ==
  {<<Admin1, "v1">>, <<Admin1, "v2">>, <<Admin1, "u1">>, <<Admin1, "nobody">>,
   <<Vendor2, "v1">>}

SetVerificationInputs ==
  {<<Admin1, 1, "approved">>, <<Admin1, 1, "rejected">>,
   <<Admin1, 1, "hidden">>, <<Vendor1, 1, "approved">>}

NextFraud ==
  \/ \E r \in Reqs, in \in MarkFraudInputs : MarkFraudFind(r, in[1], in[2])
  \/ \E r \in Reqs : MarkFraudSet(r)
  \/ \E r \in Reqs : MarkFraudHide(r)
  \/ \E r \in Reqs, in \in SetVerificationInputs :
       SetVerification(r, in[1], in[2], in[3])

SpecFraud == InitFraud /\ [][NextFraud]_vars

(* ---------------- creation of tickets ---------------- *)
\* no ticket is stored and nobody is marked yet
InitCreate ==
  /\ ticketsCollection = <<>>
  /\ bookingsCollection = <<>>
  /\ usersCollection = InitUsers
  /\ reqs = [r \in Reqs |-> Idle]
  /\ now = 0

\* a body with the fields of the form; one that also carries the fields the
\* server fixes; bodies with a negative price and quantity, with quantity 0
\* and without a title
GoodBody == [title |-> "bus", price |-> 10, quantity |-> 2,
             departureDateTime |-> MaxTime]

ForgedBody == [title |-> "bus", price |-> 10, quantity |-> 2,
               departureDateTime |-> MaxTime, verificationStatus |-> "approved",
               isAdvertised |-> TRUE, isHidden |-> TRUE]

TicketBodies ==
  {GoodBody, ForgedBody,
   [GoodBody EXCEPT !.price = -1, !.quantity = -1],
   [GoodBody EXCEPT !.quantity = 0],
   [GoodBody EXCEPT !.title = ""]}

CreateTicketInputs ==
  {<<Vendor1, b>> : b \in TicketBodies} \cup {<<User1, GoodBody>>}

\* the vendor's own updates: the verification status, and the flags
CreateUpdateInputs ==
  {<<Vendor1, 1, [verificationStatus |-> "approved"]>>,
   <<Vendor1, 1, [isHidden |-> FALSE]>>}

NextCreate ==
  \/ \E r \in Reqs, in \in CreateTicketInputs : CreateTicketFind(r, in[1], in[2])
  \/ \E r \in Reqs : CreateTicketInsert(r)
  \/ \E r \in Reqs, in \in CreateTicketInputs : AddTicket(r, in[1], in[2])
  \/ \E r \in Reqs, in \in {<<Admin1, "v1">>, <<Vendor1, "v1">>} :
       MarkFraudFind(r, in[1], in[2])
  \/ \E r \in Reqs : MarkFraudSet(r)
  \/ \E r \in Reqs : MarkFraudHide(r)
  \/ \E r \in Reqs, in \in SetVerificationInputs :
       SetVerification(r, in[1], in[2], in[3])
  \/ \E r \in Reqs, in \in CreateUpdateInputs :
       UpdateTicketFind(r, in[1], in[2], in[3])
  \/ \E r \in Reqs : UpdateTicketSet(r)

SpecCreate == InitCreate /\ [][NextCreate]_vars

(* ---------------- one ticket from creation to payment ---------------- *)
\* the requests of the scenario, one after the other: every request is taken
\* up by handler 1, which is free only when the request before has answered
ScenarioBookings == {<<User1, 2>>, <<User2, 1>>}

NextScenario ==
  \/ AddTicket(1, Vendor1, GoodBody)
  \/ SetVerification(1, Admin1, 1, "approved")
  \/ \E in \in ScenarioBookings : CreateBookingFind(1, in[1], 1, in[2])
  \/ CreateBookingUser(1)
  \/ CreateBookingInsert(1)
  \/ CreateBookingDecrement(1)
  \/ \E b \in BookingIds : Decide(1, Vendor1, b, "accepted")
  \/ \E b \in BookingIds : PayFind(1, User1, b)
  \/ PaySetPaid(1)
  \/ PayDecrement(1)
  \/ Tick

SpecScenario == InitCreate /\ [][NextScenario]_vars

(* ---------------- verification and upkeep of stored tickets ---------------- *)
\* tickets of v1 and v2 in turn, pending or approved, and no booking
InitCatalog ==
  /\ \E st \in [1..CatalogTickets -> {"pending", "approved"}] :
       ticketsCollection =
         [t \in 1..CatalogTickets |->
            [Ticket(InitQuantity, FALSE, MaxTime) EXCEPT
               !.vendorEmail = IF t % 2 = 1 THEN "v1" ELSE "v2",
               !.verificationStatus = st[t]]]
  /\ bookingsCollection = <<>>
  /\ usersCollection = InitUsers
  /\ reqs = [r \in Reqs |-> Idle]
  /\ now = 0

\* the values an ADMIN sends, on a stored ticket and on a missing one, and
\* one request of a VENDOR
SetTicketStatusInputs ==
  {<<Admin1, 1, st>> : st \in {"approved", "rejected", "hidden", "pending"}}
    \cup {<<Admin1, CatalogTickets + 1, "approved">>, <<Vendor1, 1, "approved">>}

\* the owning vendor sets the stock of its ticket; one request of another vendor
CatalogUpdateInputs ==
  {<<Vendor1, 1, [quantity |-> InitQuantity + 1]>>,
   <<Vendor2, 1, [quantity |-> 0]>>}

NextCatalog ==
  \/ \E r \in Reqs, in \in SetTicketStatusInputs :
       SetVerification(r, in[1], in[2], in[3])
  \/ \E r \in Reqs, in \in SetTicketStatusInputs :
       SetTicketStatusFind(r, in[1], in[2], in[3])
  \/ \E r \in Reqs : SetTicketStatusUpdate(r)
  \/ \E r \in Reqs, in \in CatalogUpdateInputs :
       UpdateTicketFind(r, in[1], in[2], in[3])
  \/ \E r \in Reqs : UpdateTicketSet(r)
  \/ \E r \in Reqs : CreateBookingFind(r, User1, 1, 1)
  \/ \E r \in Reqs : CreateBookingUser(r)
  \/ \E r \in Reqs : CreateBookingInsert(r)
  \/ \E r \in Reqs : CreateBookingDecrement(r)

SpecCatalog == InitCatalog /\ [][NextCatalog]_vars

(* ---------------- reservations alone ---------------- *)
\* the quantities a body may carry: none, a negative one, and the two of
\* QuantityInputs
ReserveQuantities == QuantityInputs \cup {0, -1}

\* every quantity on the first ticket, and one request for a ticket that
\* is not stored
ReserveInputs ==
  {<<1, q>> : q \in ReserveQuantities} \cup {<<BookTickets + 1, 1>>}

InitReserve ==
  /\ ticketsCollection = [t \in 1..BookTickets |-> Ticket(InitQuantity, FALSE, MaxTime)]
  /\ bookingsCollection = <<>>
  /\ usersCollection = InitUsers
  /\ reqs = [r \in Reqs |-> Idle]
  /\ now = 0

NextReserve ==
  \/ \E r \in Reqs, in \in ReserveInputs : CreateBookingFind(r, User1, in[1], in[2])
  \/ \E r \in Reqs : CreateBookingUser(r)
  \/ \E r \in Reqs : CreateBookingInsert(r)
  \/ \E r \in Reqs : CreateBookingDecrement(r)

SpecReserve == InitReserve /\ [][NextReserve]_vars

(* ---------------- registration of users ---------------- *)
\* an email that is stored and one that is not
RegisterEmails == {"u1", "new"}

\* an ADMIN changes the role of a stored user; a request with a role that
\* does not exist and one of a caller who is no ADMIN
ChangeRoleInputs ==
  {<<Admin1, "u1", "VENDOR">>, <<Admin1, "u1", "OWNER">>,
   <<Vendor1, "u1", "ADMIN">>}

NextUsers ==
  \/ \E r \in Reqs, e \in RegisterEmails : RegisterFind(r, e)
  \/ \E r \in Reqs : RegisterInsert(r)
  \/ \E r \in Reqs, e \in RegisterEmails \cup {""} : GoogleLoginFind(r, e)
  \/ \E r \in Reqs : GoogleLoginInsert(r)
  \/ \E r \in Reqs, e \in RegisterEmails, role \in {"", "ADMIN"} :
       AddUser(r, e, role)
  \/ \E r \in Reqs, in \in ChangeRoleInputs :
       ChangeRole(r, in[1], in[2], in[3])

SpecUsers == InitCreate /\ [][NextUsers]_vars

(* ---------------- bookings stored from a request body ---------------- *)
\* a body with the fields of the form, and one that also names an owner and
\* a status
PlainBookingBody == [ticketId |-> 1, quantity |-> 1]

ForgedBookingBody ==
  [ticketId |-> 1, quantity |-> 1, userEmail |-> "u1", status |-> "paid"]

BookingBodies == {PlainBookingBody, ForgedBookingBody}

NextPostBooking ==
  \/ \E r \in Reqs, c \in {User1, User2} : CreateBookingFind(r, c, 1, 1)
  \/ \E r \in Reqs : CreateBookingUser(r)
  \/ \E r \in Reqs : CreateBookingInsert(r)
  \/ \E r \in Reqs : CreateBookingDecrement(r)
  \/ \E r \in Reqs, c \in {User1, User2}, b \in BookingBodies : AddBooking(r, c, b)
  \/ \E r \in Reqs, c \in {User1, User2}, b \in BookingBodies : PostBooking(r, c, b)

SpecPostBooking == InitReserve /\ [][NextPostBooking]_vars

(* ---------------- bookings of a ticket that is edited or deleted ---------------- *)
\* the owning vendor renames and reschedules its ticket, and hands it to
\* another vendor
SnapshotUpdateInputs ==
  {<<Vendor1, 1, [title |-> "train", departureDateTime |-> 0]>>,
   <<Vendor1, 1, [vendorEmail |-> "v2"]>>}

NextSnapshot ==
  \/ \E r \in Reqs : CreateBookingFind(r, User1, 1, 1)
  \/ \E r \in Reqs : CreateBookingUser(r)
  \/ \E r \in Reqs : CreateBookingInsert(r)
  \/ \E r \in Reqs : CreateBookingDecrement(r)
  \/ \E r \in Reqs, in \in SnapshotUpdateInputs :
       UpdateTicketFind(r, in[1], in[2], in[3])
  \/ \E r \in Reqs : UpdateTicketSet(r)
  \/ \E r \in Reqs : DeleteTicketFind(r, Vendor1, 1)
  \/ \E r \in Reqs : DeleteTicketRemove(r)

SpecSnapshot == InitReserve /\ [][NextSnapshot]_vars

(* ======================= properties ======================= *)
RECURSIVE BookedUpTo(_, _)
BookedUpTo(t, n) ==
  IF n = 0 THEN 0
  ELSE BookedUpTo(t, n - 1)
       + (IF bookingsCollection[n].ticketId = t
            THEN bookingsCollection[n].quantity ELSE 0)

\* the units of ticket t that the stored bookings hold
BookedQuantity(t) == BookedUpTo(t, Len(bookingsCollection))

RECURSIVE UnansweredUpTo(_, _)
UnansweredUpTo(t, n) ==
  IF n = 0 THEN 0
  ELSE UnansweredUpTo(t, n - 1)
       + (IF reqs[n].op = "createBooking" /\ reqs[n].pc = "decrement"
             /\ reqs[n].id = t
            THEN reqs[n].arg ELSE 0)

\* the units of ticket t taken by the createBooking calls answered "ok":
\* every stored booking but those whose handler has not answered yet
SucceededQuantity(t) == BookedQuantity(t) - UnansweredUpTo(t, MaxReqs)

\* a createBooking handler has inserted its booking and not yet decremented
Reserving == \E r \in Reqs : reqs[r].op = "createBooking" /\ reqs[r].pc = "decrement"

\* C1: every ticket's remaining quantity is >= 0 in every reachable state
C1_QuantityNonNegative ==
  \A t \in DOMAIN ticketsCollection : ticketsCollection[t].quantity >= 0

\* C2: the createBooking calls that succeed on one ticket never take more
\* than the quantity the ticket had (5: two calls of 3 never both succeed)
C2_NoTwoSuccesses ==
  \A t \in DOMAIN ticketsCollection :
    SucceededQuantity(t) <= InitQuantity

\* C3: whenever no createBooking is between its two writes, a ticket's
\* remaining quantity is its initial quantity minus the quantities of the
\* bookings created against it, each counted once
C3_DecrementedOnce ==
  ~Reserving =>
    \A t \in DOMAIN ticketsCollection :
      ticketsCollection[t].quantity = InitQuantity - BookedQuantity(t)

\* C4: while no payment has touched the store, no state shows a booking
\* without its decrement or a decrement without its booking
C4_InsertAndDecrementAtomic ==
  (\A b \in StoredBookings : bookingsCollection[b].status # "paid") =>
    \A t \in DOMAIN ticketsCollection :
      ticketsCollection[t].quantity = InitQuantity - BookedQuantity(t)

\* C5: at most 6 tickets are advertised in every reachable state
C5_AdvertisedWithinLimit == countAdvertised(ticketsCollection) <= AdLimit

\* the step in which handler r of the route op takes up a request
Starts(r, op) ==
  /\ reqs[r].pc \in {"idle", "done"}
  /\ reqs'[r] # reqs[r]
  /\ reqs'[r].op = op
  /\ reqs'[r].pc # "idle"

\* C6: setAdvertised(true) on a ticket that is not advertised, with 6 or
\* more advertised, answers SlotsExhausted and changes no ticket;
\* setAdvertised(false) on an existing ticket answers ok at once, whatever
\* the count, and leaves the flag false and the other tickets unchanged
C6_SlotsExhausted ==
  [][\A r \in Reqs :
       (Starts(r, "advertise") /\ verifyAdmin(reqs'[r].caller)
          /\ reqs'[r].id \in DOMAIN ticketsCollection) =>
         /\ (reqs'[r].arg = "true"
               /\ countAdvertised(ticketsCollection) >= AdLimit
               /\ ~ticketsCollection[reqs'[r].id].isAdvertised) =>
              /\ reqs'[r].result = "SlotsExhausted"
              /\ ticketsCollection' = ticketsCollection
         /\ reqs'[r].arg = "false" =>
              /\ reqs'[r].result = "ok"
              /\ ticketsCollection' =
                   [ticketsCollection EXCEPT ![reqs'[r].id].isAdvertised = FALSE]
    ]_vars

\* C6 witness: with all slots in use a promotion was refused while an
\* un-advertise request went through
C6_Witness ==
  /\ countAdvertised(ticketsCollection) = AdLimit
  /\ \E r \in Reqs :
       /\ reqs[r].op = "advertise" /\ reqs[r].result = "SlotsExhausted"
       /\ reqs[r].id \in DOMAIN ticketsCollection
       /\ ~ticketsCollection[reqs[r].id].isAdvertised
  /\ \E r \in Reqs :
       /\ reqs[r].op = "advertise" /\ reqs[r].result = "ok"
       /\ reqs[r].arg = "false"
       /\ reqs[r].id \in DOMAIN ticketsCollection

\* C7: setAdvertised(true) on a ticket that is advertised already is not
\* refused and changes nothing, whatever the number of advertised tickets
C7_AdvertiseIdempotent ==
  [][\A r \in Reqs :
       (Starts(r, "advertise") /\ verifyAdmin(reqs'[r].caller)
          /\ reqs'[r].arg = "true"
          /\ reqs'[r].id \in DOMAIN ticketsCollection
          /\ ticketsCollection[reqs'[r].id].isAdvertised) =>
         /\ reqs'[r].result \in {"none", "ok"}
         /\ ticketsCollection' = ticketsCollection
    ]_vars

\* the step in which a decide handler r writes or answers
Decides(r) ==
  /\ reqs'[r] # reqs[r]
  /\ reqs'[r].op \in {"decide", "decideOwned"}
  /\ reqs'[r].pc = "done"

\* C8: decide by the owning vendor on a booking that is not pending answers
\* InvalidTransition and leaves the status as it was
C8_DecideOnlyFromPending ==
  [][\A r \in Reqs :
       (Decides(r) /\ reqs'[r].id \in StoredBookings
          /\ bookingsCollection[reqs'[r].id].status # "pending"
          /\ reqs'[r].caller.role = "VENDOR"
          /\ reqs'[r].caller.email = bookingsCollection[reqs'[r].id].vendorEmail) =>
         /\ reqs'[r].result = "InvalidTransition"
         /\ bookingsCollection'[reqs'[r].id].status =
              bookingsCollection[reqs'[r].id].status
    ]_vars

\* C9: of the decide calls on one booking at most one succeeds
C9_DecideSucceedsOnce ==
  \A b \in StoredBookings :
    Cardinality({r \in Reqs : /\ reqs[r].op \in {"decide", "decideOwned"}
                              /\ reqs[r].id = b
                              /\ reqs[r].result = "ok"}) <= 1

\* C10: once a booking's status is accepted, rejected or paid it never changes
C10_StatusMonotonic ==
  [][\A b \in StoredBookings :
       bookingsCollection[b].status # "pending" =>
         bookingsCollection'[b].status = bookingsCollection[b].status
    ]_vars

\* C12: decide by a vendor whose email is not the booking's vendorEmail
\* answers Forbidden and leaves the bookings as they were
C12_DecideOnlyByOwner ==
  [][\A r \in Reqs :
       (Decides(r) /\ reqs'[r].id \in StoredBookings
          /\ reqs'[r].caller.role = "VENDOR"
          /\ reqs'[r].caller.email # bookingsCollection[reqs'[r].id].vendorEmail) =>
         /\ reqs'[r].result = "Forbidden"
         /\ bookingsCollection' = bookingsCollection
    ]_vars

\* C13: settlePayment by a caller whose email is not the booking's userEmail
\* answers Forbidden and leaves the bookings and the tickets as they were;
\* no step of a handler of another caller makes a booking paid
C13_PayOnlyByOwner ==
  [][\A r \in Reqs :
       /\ (Starts(r, "pay") /\ reqs'[r].id \in StoredBookings
             /\ reqs'[r].caller.email # bookingsCollection[reqs'[r].id].userEmail) =>
            /\ reqs'[r].result = "Forbidden"
            /\ bookingsCollection' = bookingsCollection
            /\ ticketsCollection' = ticketsCollection
       /\ \A b \in StoredBookings :
            (reqs'[r] # reqs[r] /\ bookingsCollection[b].status # "paid"
               /\ bookingsCollection'[b].status = "paid") =>
              reqs'[r].caller.email = bookingsCollection[b].userEmail
    ]_vars

\* C14: settlePayment on a booking whose ticket departs before the current
\* time answers DeparturePassed and changes neither bookings nor tickets,
\* also when the ticket's departure was edited after the booking was made;
\* when the ticket has not departed it is not refused for the departure
C14_DeparturePassed ==
  [][\A r \in Reqs :
       (Starts(r, "pay") /\ reqs'[r].id \in StoredBookings
          /\ bookingsCollection[reqs'[r].id].ticketId \in DOMAIN ticketsCollection) =>
         LET ticket == ticketsCollection[bookingsCollection[reqs'[r].id].ticketId]
         IN IF ticket.departureDateTime < now
              THEN /\ reqs'[r].result = "DeparturePassed"
                   /\ bookingsCollection' = bookingsCollection
                   /\ ticketsCollection' = ticketsCollection
              ELSE reqs'[r].result # "DeparturePassed"
    ]_vars

\* C15: no step of a settlePayment handler changes the quantity of a ticket
C15_PayKeepsQuantity ==
  [][\A r \in Reqs :
       (reqs'[r] # reqs[r] /\ reqs'[r].op = "pay") =>
         \A t \in DOMAIN ticketsCollection :
           ticketsCollection'[t].quantity = ticketsCollection[t].quantity
    ]_vars

\* the tickets whose vendorEmail is email
TicketsOf(coll, email) == {t \in DOMAIN coll : coll[t].vendorEmail = email}

\* the step in which the markVendorFraudulent handler r answers ok
MarkFraudSucceeds(r) ==
  /\ reqs'[r] # reqs[r]
  /\ reqs'[r].op = "markFraud"
  /\ reqs'[r].result = "ok"

\* C16: when markVendorFraudulent succeeds for a vendor, every ticket of
\* that vendor is hidden, whatever its verificationStatus, and listPublic,
\* with or without advertisedOnly, returns none of them
C16_FraudHidesAll ==
  [][\A r \in Reqs :
       MarkFraudSucceeds(r) =>
         /\ \A t \in TicketsOf(ticketsCollection',
                              usersCollection[reqs'[r].id].email) :
              ticketsCollection'[t].isHidden = TRUE
         /\ \A adv \in BOOLEAN :
              listPublic(ticketsCollection', adv)
                \cap TicketsOf(ticketsCollection',
                               usersCollection[reqs'[r].id].email) = {}
    ]_vars

\* C16 witness: the marking of v1 has succeeded while v1 holds an approved,
\* advertised ticket and another vendor's approved ticket is still listed
C16_Witness ==
  /\ \E r \in Reqs : /\ reqs[r].op = "markFraud" /\ reqs[r].result = "ok"
                     /\ reqs[r].id = "v1"
  /\ \E t \in TicketsOf(ticketsCollection, "v1") :
       /\ ticketsCollection[t].verificationStatus = "approved"
       /\ ticketsCollection[t].isAdvertised
       /\ ticketsCollection[t].isHidden
  /\ listPublic(ticketsCollection, FALSE) # {}

\* C17: no state shows a user with the fraud flag set while one of that
\* user's tickets is not hidden
C17_FraudAllOrNothing ==
  \A e \in DOMAIN usersCollection :
    usersCollection[e].isFraud =>
      \A t \in TicketsOf(ticketsCollection, usersCollection[e].email) :
        ticketsCollection[t].isHidden

\* the step in which handler r of either POST /tickets handler writes or answers
CreatesTicket(r) ==
  /\ reqs'[r] # reqs[r]
  /\ reqs'[r].op \in {"createTicket", "addTicket"}

\* the tickets a step inserts
Inserted == DOMAIN ticketsCollection' \ DOMAIN ticketsCollection

\* C18: createTicket taken up for a vendor whose isFraud flag is set answers
\* Forbidden, and no step inserts a ticket of a vendor whose flag is set
C18_FraudVendorBlocked ==
  [][/\ \A r \in Reqs :
          (CreatesTicket(r) /\ reqs[r].pc \in {"idle", "done"}
             /\ verifyVendor(reqs'[r].caller)
             /\ FindUser(usersCollection, reqs'[r].caller.email).isFraud) =>
            /\ reqs'[r].result = "Forbidden"
            /\ ticketsCollection' = ticketsCollection
     /\ \A t \in Inserted :
          ~FindUser(usersCollection, ticketsCollection'[t].vendorEmail).isFraud
    ]_vars

\* C19: a ticket is inserted as pending, not advertised and not hidden,
\* whatever the body carries, and a ticket enters listPublic only in a step
\* of a setVerification handler called by an ADMIN
C19_CreatedPending ==
  [][/\ \A t \in Inserted :
          /\ ticketsCollection'[t].verificationStatus = "pending"
          /\ ticketsCollection'[t].isAdvertised = FALSE
          /\ ticketsCollection'[t].isHidden = FALSE
     /\ \A t \in listPublic(ticketsCollection', FALSE) :
          t \notin listPublic(ticketsCollection, FALSE) =>
            \E r \in Reqs : /\ reqs'[r] # reqs[r]
                            /\ reqs'[r].op = "setVerification"
                            /\ verifyAdmin(reqs'[r].caller)
    ]_vars

\* C20: createTicket with a price or a quantity that is not positive answers
\* ValidationError and inserts nothing, so every ticket inserted has
\* price > 0 and quantity > 0
C20_PositivePriceQuantity ==
  [][/\ \A r \in Reqs :
          (CreatesTicket(r) /\ verifyVendor(reqs'[r].caller)
             /\ (reqs'[r].arg.price <= 0 \/ reqs'[r].arg.quantity <= 0)) =>
            /\ reqs'[r].result = "ValidationError"
            /\ ticketsCollection' = ticketsCollection
     /\ \A t \in Inserted :
          /\ ticketsCollection'[t].price > 0
          /\ ticketsCollection'[t].quantity > 0
    ]_vars

\* C11: requests served one after the other on a ticket created with
\* quantity 2: a booking of 2 units that succeeds leaves quantity 0; a
\* booking of 1 unit on quantity 0 answers InsufficientInventory; accepting
\* a pending booking makes it accepted; a payment that succeeds makes the
\* booking paid and leaves the ticket's quantity at 0
C11_Scenario ==
  [][/\ (reqs[1].op = "createBooking" /\ reqs[1].pc = "decrement"
           /\ reqs[1].arg = 2 /\ reqs'[1].result = "ok") =>
          ticketsCollection'[reqs[1].id].quantity = 0
     /\ (Starts(1, "createBooking") /\ reqs'[1].arg = 1
           /\ reqs'[1].id \in DOMAIN ticketsCollection
           /\ ticketsCollection[reqs'[1].id].quantity = 0) =>
          reqs'[1].result = "InsufficientInventory"
     /\ (Decides(1) /\ reqs'[1].id \in StoredBookings
           /\ bookingsCollection[reqs'[1].id].status = "pending") =>
          bookingsCollection'[reqs'[1].id].status = "accepted"
     /\ (reqs[1].op = "pay" /\ reqs[1].pc = "decrement"
           /\ reqs'[1].result = "ok"
           /\ bookingsCollection[reqs[1].id].quantity = 2
           /\ ticketsCollection[bookingsCollection[reqs[1].id].ticketId].quantity = 0) =>
          /\ bookingsCollection'[reqs[1].id].status = "paid"
          /\ ticketsCollection'[bookingsCollection[reqs[1].id].ticketId].quantity = 0
    ]_vars

\* the tickets the public listing is to return
Listable(coll, advertisedOnly) ==
  {t \in DOMAIN coll : /\ coll[t].verificationStatus = "approved"
                       /\ coll[t].isHidden = FALSE
                       /\ advertisedOnly => coll[t].isAdvertised = TRUE}

\* C21: in every state every GET /tickets handler returns exactly the
\* approved tickets that are not hidden (advertised ones only when asked):
\* no pending, rejected or hidden ticket, and none of the others left out
C21_ListPublicExact ==
  \A adv \in BOOLEAN :
    /\ listPublic(ticketsCollection, adv) = Listable(ticketsCollection, adv)
    /\ listApproved(ticketsCollection, adv) = Listable(ticketsCollection, adv)
    /\ \A status \in {"", "approved", "pending"} :
         listByStatus(ticketsCollection, status) = Listable(ticketsCollection, FALSE)

\* the step in which a setVerification handler r, of either variant, writes or answers
SetsVerification(r) ==
  /\ reqs'[r] # reqs[r]
  /\ reqs'[r].op \in {"setVerification", "setTicketStatus"}

\* C22: setVerification by an ADMIN with a value other than approved or
\* rejected answers InvalidStatus and changes no ticket; one that answers ok
\* changes the verificationStatus of its ticket and nothing else; every
\* ticket's verificationStatus stays one of pending, approved, rejected
C22_SetVerificationValues ==
  [][/\ \A r \in Reqs :
          (SetsVerification(r) /\ verifyAdmin(reqs'[r].caller)) =>
            /\ reqs'[r].arg \notin {"approved", "rejected"} =>
                 /\ reqs'[r].result = "InvalidStatus"
                 /\ ticketsCollection' = ticketsCollection
            /\ (reqs'[r].result = "ok" /\ reqs'[r].id \in DOMAIN ticketsCollection) =>
                 ticketsCollection' =
                   [ticketsCollection EXCEPT
                      ![reqs'[r].id].verificationStatus = reqs'[r].arg]
     /\ \A t \in DOMAIN ticketsCollection' :
          ticketsCollection'[t].verificationStatus \in
            {"pending", "approved", "rejected"}
    ]_vars

\* the tickets stored before and after a step
Kept == DOMAIN ticketsCollection \cap DOMAIN ticketsCollection'

\* C23: the verificationStatus of a ticket changes only in a step of a
\* handler whose caller has the role ADMIN
C23_VerificationByAdminOnly ==
  [][\A t \in Kept :
       ticketsCollection'[t].verificationStatus
           # ticketsCollection[t].verificationStatus =>
         \E r \in Reqs : reqs'[r] # reqs[r] /\ reqs'[r].caller.role = "ADMIN"
    ]_vars

\* C24: no ticket is inserted hidden, the isHidden flag of a ticket changes
\* only in a step of the markVendorFraudulent handler, and a hidden ticket
\* stays hidden
C24_HiddenByCascadeOnly ==
  [][/\ \A t \in Inserted : ticketsCollection'[t].isHidden = FALSE
     /\ \A t \in Kept :
          /\ ticketsCollection'[t].isHidden # ticketsCollection[t].isHidden =>
               \E r \in Reqs : reqs'[r] # reqs[r] /\ reqs'[r].op = "markFraud"
          /\ ticketsCollection[t].isHidden = TRUE =>
               ticketsCollection'[t].isHidden = TRUE
    ]_vars

\* C25: the quantity of a stored ticket changes only in a step of a
\* createBooking handler
C25_QuantityByBookingOnly ==
  [][\A t \in Kept :
       ticketsCollection'[t].quantity # ticketsCollection[t].quantity =>
         \E r \in Reqs : reqs'[r] # reqs[r] /\ reqs'[r].op = "createBooking"
    ]_vars

\* C26: a request to accept or reject a stored booking (by the decide routes
\* or by PATCH /bookings/:id with that status) whose caller is not a VENDOR
\* answers Forbidden and leaves the bookings as they were
C26_ExactRole ==
  [][\A r \in Reqs :
       (reqs[r].pc \in {"idle", "done"} /\ reqs'[r] # reqs[r]
          /\ reqs'[r].op \in {"decide", "decideOwned", "updateBooking"}
          /\ reqs'[r].arg \in {"accepted", "rejected"}
          /\ reqs'[r].id \in StoredBookings
          /\ reqs'[r].caller.role # "VENDOR") =>
         /\ reqs'[r].result = "Forbidden"
         /\ bookingsCollection' = bookingsCollection
    ]_vars

\* C27: createBooking on a ticket that is not stored answers NotFound, and
\* with a quantity above the ticket's remaining quantity answers
\* InsufficientInventory; in both cases the handler has answered and neither
\* the bookings nor the tickets have changed
C27_CreateBookingRefusals ==
  [][\A r \in Reqs :
       Starts(r, "createBooking") =>
         /\ reqs'[r].id \notin DOMAIN ticketsCollection =>
              /\ reqs'[r].result = "NotFound"
              /\ reqs'[r].pc = "done"
              /\ bookingsCollection' = bookingsCollection
              /\ ticketsCollection' = ticketsCollection
         /\ (reqs'[r].id \in DOMAIN ticketsCollection
               /\ reqs'[r].arg > ticketsCollection[reqs'[r].id].quantity) =>
              /\ reqs'[r].result = "InsufficientInventory"
              /\ reqs'[r].pc = "done"
              /\ bookingsCollection' = bookingsCollection
              /\ ticketsCollection' = ticketsCollection
    ]_vars

\* C27 witness: after a booking was stored and its quantity taken, one
\* request was refused for the stock and another for a ticket not stored
C27_Witness ==
  /\ Len(bookingsCollection) >= 1
  /\ \E r \in Reqs :
       /\ reqs[r].op = "createBooking"
       /\ reqs[r].result = "InsufficientInventory"
       /\ reqs[r].id \in DOMAIN ticketsCollection
       /\ reqs[r].arg > ticketsCollection[reqs[r].id].quantity
       /\ ticketsCollection[reqs[r].id].quantity < InitQuantity
  /\ \E r \in Reqs :
       /\ reqs[r].op = "createBooking" /\ reqs[r].result = "NotFound"
       /\ reqs[r].id \notin DOMAIN ticketsCollection

\* C28: every stored booking has a quantity above 0, and no ticket's
\* quantity is above the quantity it was stored with
C28_BookedQuantityPositive ==
  /\ \A b \in StoredBookings : bookingsCollection[b].quantity > 0
  /\ \A t \in DOMAIN ticketsCollection :
       ticketsCollection[t].quantity <= InitQuantity

\* C30: no two user documents have the same email, and a step of a
\* registration or login handler changes no document that was stored
C30_OneUserPerEmail ==
  [][/\ \A i, j \in DOMAIN usersCollection' :
          usersCollection'[i].email = usersCollection'[j].email => i = j
     /\ \A r \in Reqs :
          (reqs'[r] # reqs[r]
             /\ reqs'[r].op \in {"register", "googleLogin", "addUser"}) =>
            \A i \in DOMAIN usersCollection :
              usersCollection'[i] = usersCollection[i]
    ]_vars

\* the fields a booking copies from its ticket
Snapshot(booking) ==
  <<booking.ticketId, booking.ticketTitle, booking.departureDateTime,
    booking.vendorEmail>>

MarkFraudInProgress ==
  \E r \in Reqs : reqs[r].op = "markFraud" /\ reqs[r].pc \in {"setFraud", "hide"}

\* C32: in every state in which no markVendorFraudulent is in progress,
\* every ticket of a vendor whose isFraud flag is set is hidden
C32_FraudVendorTicketsHidden ==
  ~MarkFraudInProgress =>
    \A id \in DOMAIN usersCollection :
      usersCollection[id].isFraud =>
        \A t \in TicketsOf(ticketsCollection, usersCollection[id].email) :
          ticketsCollection[t].isHidden = TRUE

\* C33: every booking a handler inserts has the status pending and the
\* userEmail of the caller of that handler, whatever the body carries
C33_BookingPendingAndOwned ==
  [][\A r \in Reqs :
       (reqs'[r] # reqs[r]
          /\ Len(bookingsCollection') = Len(bookingsCollection) + 1) =>
         LET booking == bookingsCollection'[Len(bookingsCollection')]
         IN /\ booking.status = "pending"
            /\ "userEmail" \in DOMAIN booking
            /\ booking.userEmail = reqs'[r].caller.email
    ]_vars

(* ---------------- handlers whose promise rejects ---------------- *)
\* The handlers of POST /bookings, PATCH /bookings/pay/:id and
\* PATCH /users/fraud/:id are async functions without try/catch, the
\* application installs no error middleware and no handler of
\* 'unhandledRejection'.  new ObjectId(id) throws on an id that is no
\* 24-digit hex string and a persistence call may reject; either way the
\* promise of the handler rejects.  What follows depends on the build, which
\* the repository does not fix: a router that ignores the promise leaves the
\* request without a response ("noResponse"), and the runtime then either
\* goes on or ends the process on the unhandled rejection ("exit"); a router
\* that forwards the rejection answers 500 from its default error handler
\* ("InternalError").
UncaughtOutcomes == {"noResponse", "exit", "InternalError"}

\* an id new ObjectId() throws on
MalformedId == -1

\* the process runs: no unhandled rejection has ended it
Alive == \A r \in Reqs : reqs[r].pc # "killed"

\* the handlers after the promise of handler r has rejected
Uncaught(r, op, caller, id, arg, outcome) ==
  IF outcome = "InternalError"
    THEN [reqs EXCEPT ![r] = Respond(op, caller, id, arg, "InternalError")]
  ELSE IF outcome = "noResponse"
    THEN [reqs EXCEPT ![r] = Request(op, "hung", caller, id, arg, <<>>)]
  ELSE [q \in Reqs |->
          IF q = r THEN Request(op, "killed", caller, id, arg, <<>>)
          ELSE IF reqs[q].pc \in {"idle", "done"} THEN reqs[q]
          ELSE [reqs[q] EXCEPT !.pc = "killed"]]

\* POST /bookings: new ObjectId(ticketId) throws, or the first findOne rejects
CreateBookingRejects(r, caller, ticketId, quantity, outcome) ==
  /\ Free(r)
  /\ reqs' = Uncaught(r, "createBooking", caller, ticketId, quantity, outcome)
  /\ UNCHANGED <<ticketsCollection, bookingsCollection, now, usersCollection>>

\* PATCH /bookings/pay/:id: new ObjectId(req.params.id) throws, or the first
\* findOne rejects
PayRejects(r, caller, id, outcome) ==
  /\ Free(r)
  /\ reqs' = Uncaught(r, "pay", caller, id, 0, outcome)
  /\ UNCHANGED <<ticketsCollection, bookingsCollection, now, usersCollection>>

\* PATCH /users/fraud/:id, past verifyAdmin: new ObjectId(req.params.id)
\* throws, or the first findOne rejects
MarkFraudRejects(r, caller, id, outcome) ==
  /\ Free(r)
  /\ verifyAdmin(caller)
  /\ reqs' = Uncaught(r, "markFraud", caller, id, 0, outcome)
  /\ UNCHANGED <<ticketsCollection, bookingsCollection, now, usersCollection>>

\* a persistence call a suspended handler awaits rejects: the writes the
\* handler has made stay, the ones that follow are not made
AwaitRejects(r, outcome) ==
  /\ reqs[r].op \in {"createBooking", "pay", "markFraud"}
  /\ reqs[r].pc \notin {"idle", "done", "hung", "killed"}
  /\ reqs' = Uncaught(r, reqs[r].op, reqs[r].caller, reqs[r].id, reqs[r].arg,
                      outcome)
  /\ UNCHANGED <<ticketsCollection, bookingsCollection, now, usersCollection>>

(* ---------------- completion of the handlers ---------------- *)
\* a USER books and pays, an ADMIN marks a vendor; ids that are stored, not
\* stored and malformed
OutcomeBookingInputs == {<<User1, 1, 1>>, <<User1, BookTickets + 1, 1>>}

OutcomePayInputs == {<<User1, 1>>, <<User1, MaxBookings + 1>>}

OutcomeFraudInputs == {<<Admin1, "v1">>, <<Admin1, "nobody">>, <<Vendor2, "v1">>}

NextOutcome ==
  \/ \E r \in Reqs, in \in OutcomeBookingInputs :
       Alive /\ CreateBookingFind(r, in[1], in[2], in[3])
  \/ \E r \in Reqs : CreateBookingUser(r)
  \/ \E r \in Reqs : CreateBookingInsert(r)
  \/ \E r \in Reqs : CreateBookingDecrement(r)
  \/ \E r \in Reqs, in \in OutcomePayInputs : Alive /\ PayFind(r, in[1], in[2])
  \/ \E r \in Reqs : PaySetPaid(r)
  \/ \E r \in Reqs : PayDecrement(r)
  \/ \E r \in Reqs, in \in OutcomeFraudInputs :
       Alive /\ MarkFraudFind(r, in[1], in[2])
  \/ \E r \in Reqs : MarkFraudSet(r)
  \/ \E r \in Reqs : MarkFraudHide(r)
  \/ \E r \in Reqs, o \in UncaughtOutcomes :
       Alive /\ CreateBookingRejects(r, User1, MalformedId, 1, o)
  \/ \E r \in Reqs, o \in UncaughtOutcomes :
       Alive /\ PayRejects(r, User1, MalformedId, o)
  \/ \E r \in Reqs, o \in UncaughtOutcomes :
       Alive /\ MarkFraudRejects(r, Admin1, "malformed", o)
  \/ \E r \in Reqs, o \in UncaughtOutcomes : AwaitRejects(r, o)

\* the event loop resumes a suspended handler once the call it awaits has
\* settled: every step that continues a handler is taken in the end
FairOutcome ==
  \A r \in Reqs :
    /\ WF_vars(CreateBookingUser(r))
    /\ WF_vars(CreateBookingInsert(r))
    /\ WF_vars(CreateBookingDecrement(r))
    /\ WF_vars(PaySetPaid(r))
    /\ WF_vars(PayDecrement(r))
    /\ WF_vars(MarkFraudSet(r))
    /\ WF_vars(MarkFraudHide(r))

SpecOutcome == InitSettle /\ [][NextOutcome]_vars /\ FairOutcome

\* C31: the process is never ended, and every handler that has started
\* answers in the end, with a result or with one error kind
C31_EveryOperationCompletes ==
  /\ []Alive
  /\ \A r \in Reqs :
       (reqs[r].pc \notin {"idle", "done"})
         ~> (reqs[r].pc = "done" /\ reqs[r].result # "none")

====
